---------------------------- MODULE Spec2Model ----------------------------
(***************************************************************************)
(* Model of the backtest simulation of src/backtest.py: schedule building  *)
(* (quarterly rebalance dates, year-end fee dates), the day-by-day loop    *)
(* over the date index (rebalance, return compounding, annual fee) and the *)
(* performance statistics (total return, CAGR).                            *)
(*                                                                         *)
(* Dates are integers yyyymmdd, so that the calendar year and quarter of a *)
(* date are computed from it as pandas computes .year and .quarter.        *)
(*                                                                         *)
(* Numbers are exact.  A weight, a market cap or a return is a pair        *)
(* <<n, d>> denoting n/d in lowest terms with d > 0; <<0, 0>> is NaN (the  *)
(* result of 0.0/0.0).  A portfolio value is a triple <<n, d, k>>          *)
(* denoting (n/d) * (1 - ANNUAL_FEE)^k: the k counts the multiplications   *)
(* by (1.0 - ANNUAL_FEE) the value went through; <<0, 0, 0>> is NaN.       *)
(* Order and equality of values are decided numerically, with the value of *)
(* ANNUAL_FEE, and follow IEEE: every comparison with NaN is false.        *)
(***************************************************************************)
EXTENDS Integers, Sequences, FiniteSets

(* ----------------------------- configuration --------------------------- *)

\* The number of securities held.  backtest.py sets TOP_N = 50; the model
\* runs the same code with TOP_N = 2 over a universe of three tickers.
TOP_N == 2

INITIAL_VALUE == 10000

\* ANNUAL_FEE = 0.0049 = ANNUAL_FEE_NUM / ANNUAL_FEE_DEN
ANNUAL_FEE_NUM == 49

ANNUAL_FEE_DEN == 10000

(* -------------------------------- bounds ------------------------------- *)

\* Longest date index.
MaxDates == 4

\* Columns of the market cap panel, in column order.
Tickers == {1, 2, 3}

\* Columns of the return panel: the tickers that have a price sheet.
PricedTickers == {1, 2}

\* Market caps of the panel: non-negative; a cell may also be missing.
Caps == {0, 1}

\* Trading days the date index is drawn from: the last two days of a first
\* quarter, the last two days of the same year and the first day of the next.
Calendar == {20240327, 20240328, 20241230, 20241231, 20250102}

\* Daily returns of one security: pct_change of positive Close prices, which
\* lies above -100%.
Returns == {<<-1, 2>>, <<0, 1>>, <<1, 1>>}

(* ------------------------------ arithmetic ----------------------------- *)

Abs(x) == IF x < 0 THEN -x ELSE x

Sign(x) == IF x < 0 THEN -1 ELSE IF x > 0 THEN 1 ELSE 0

RECURSIVE GCD(_, _)
GCD(a, b) == IF b = 0 THEN a ELSE GCD(b, a % b)

RECURSIVE Pow(_, _)
Pow(b, e) == IF e = 0 THEN 1 ELSE b * Pow(b, e - 1)

NaN == <<0, 0>>

IsNaN(x) == x[2] = 0

\* n/d in lowest terms, d > 0.
Rat(n, d) ==
    IF d = 0 THEN NaN
    ELSE LET g == GCD(Abs(n), Abs(d))
             s == IF d < 0 THEN -1 ELSE 1
         IN  <<(s * n) \div g, (s * d) \div g>>

RAdd(a, b) ==
    IF IsNaN(a) \/ IsNaN(b) THEN NaN
    ELSE Rat(a[1] * b[2] + b[1] * a[2], a[2] * b[2])

RMul(a, b) ==
    IF IsNaN(a) \/ IsNaN(b) THEN NaN
    ELSE LET g1 == GCD(Abs(a[1]), b[2])
             g2 == GCD(Abs(b[1]), a[2])
         IN  Rat((a[1] \div g1) * (b[1] \div g2), (a[2] \div g2) * (b[2] \div g1))

\* Float division: 0.0/0.0 is NaN (numpy warns and goes on).  A non-zero
\* numerator over zero does not arise: the only divisor is a sum of
\* non-negative market caps, which is zero only when each of them is.
RDiv(a, b) ==
    IF IsNaN(a) \/ IsNaN(b) \/ b[1] = 0 THEN NaN
    ELSE RMul(a, Rat(b[2], b[1]))

RECURSIVE RSum(_, _)
RSum(f, S) ==
    IF S = {} THEN <<0, 1>>
    ELSE LET t == CHOOSE x \in S : TRUE
         IN  RAdd(f[t], RSum(f, S \ {t}))

VNaN == <<0, 0, 0>>

VIsNaN(v) == v[2] = 0

Val(n) == <<n, 1, 0>>

\* v * r for a value v and a number r.
VMul(v, r) ==
    IF VIsNaN(v) \/ IsNaN(r) THEN VNaN
    ELSE LET q == RMul(<<v[1], v[2]>>, r)
         IN  IF q[1] = 0 THEN <<0, 1, 0>> ELSE <<q[1], q[2], v[3]>>

\* Faulty variant of VFee: the value is left as it is.
VFeeNone(v) == v

\* v * (1.0 - ANNUAL_FEE)
VFee(v) ==
    IF VIsNaN(v) \/ v[1] = 0 THEN v ELSE <<v[1], v[2], v[3] + 1>>

\* The sign of a - b for values a, b that are not NaN, decided with
\* 1 - ANNUAL_FEE = (ANNUAL_FEE_DEN - ANNUAL_FEE_NUM) / ANNUAL_FEE_DEN.
VCmp(a, b) ==
    IF Sign(a[1]) # Sign(b[1]) \/ a[1] = 0
    THEN Sign(Sign(a[1]) - Sign(b[1]))
    ELSE LET q == RMul(<<a[1], a[2]>>, Rat(b[2], b[1]))
             e == a[3] - b[3]
             P == ANNUAL_FEE_DEN - ANNUAL_FEE_NUM
             lhs == IF e >= 0 THEN q[1] * Pow(P, e) ELSE q[1] * Pow(ANNUAL_FEE_DEN, -e)
             rhs == IF e >= 0 THEN q[2] * Pow(ANNUAL_FEE_DEN, e) ELSE q[2] * Pow(P, -e)
         IN  Sign(a[1]) * Sign(lhs - rhs)

VEq(a, b) == ~VIsNaN(a) /\ ~VIsNaN(b) /\ VCmp(a, b) = 0

VGe(a, b) == ~VIsNaN(a) /\ ~VIsNaN(b) /\ VCmp(a, b) >= 0

VPositive(v) == ~VIsNaN(v) /\ v[1] > 0

(* ------------------------------ sequences ------------------------------ *)

Range(s) == {s[j] : j \in DOMAIN s}

RECURSIVE SortedSeq(_)
SortedSeq(S) ==
    IF S = {} THEN <<>>
    ELSE LET m == CHOOSE x \in S : \A y \in S : x <= y
         IN  <<m>> \o SortedSeq(S \ {m})

\* The strictly increasing date indexes of at most MaxDates days.
DateIndexes ==
    {SortedSeq(S) : S \in {T \in SUBSET Calendar : T # {} /\ Cardinality(T) <= MaxDates}}


(* ------------------------------- schedule ------------------------------ *)

YearOf(d) == d \div 10000

MonthOf(d) == (d \div 100) % 100

\* pandas: quarter = (month - 1) // 3 + 1
QuarterOf(d) == (MonthOf(d) - 1) \div 3 + 1

\* market_cap_panel.index.year.unique()
Years(idx) == {YearOf(d) : d \in Range(idx)}

\* market_cap_panel[(index.year == year) & (index.quarter == quarter)]
QuarterData(idx, year, quarter) ==
    SelectSeq(idx, LAMBDA d : YearOf(d) = year /\ QuarterOf(d) = quarter)

\* Faulty variant of QuarterLast: the first day of the quarter.
QuarterFirst(qd) == qd[1]

\* quarter_data.index[-1]
QuarterLast(qd) == qd[Len(qd)]

\* The loop over years and quarters, then sorted(set(rebalance_dates)).
RebalanceDates(idx) ==
    SortedSeq({QuarterLast(QuarterData(idx, y, q)) :
                  <<y, q>> \in {yq \in Years(idx) \X (1..4) :
                                   QuarterData(idx, yq[1], yq[2]) # <<>>}})

\* groupby(index.to_period("Y")).tail(1).index, as a set
YearEndDates(idx) ==
    {LET yd == SelectSeq(idx, LAMBDA d : YearOf(d) = y) IN yd[Len(yd)] : y \in Years(idx)}

(* ------------------------------ rebalancing ---------------------------- *)

\* A row of the market cap panel: per ticker a market cap, or -1 for a
\* missing cell.
Rows == [Tickers -> {-1} \cup Caps]

\* market_cap_panel.loc[date].dropna()
Dropna(row) == [t \in {u \in Tickers : row[u] >= 0} |-> row[t]]

\* Faulty variant of EnoughValid: any market cap at all is enough.
EnoughValidAny(m) == Cardinality(DOMAIN m) >= 1

\* len(mcap) >= TOP_N
EnoughValid(m) == Cardinality(DOMAIN m) >= TOP_N

\* Faulty variant of NLargest: the first n columns, whatever their values.
RECURSIVE NFirst(_, _)
NFirst(m, n) ==
    IF n = 0 \/ DOMAIN m = {} THEN <<>>
    ELSE LET t == CHOOSE x \in DOMAIN m : \A y \in DOMAIN m : x <= y
         IN  <<t>> \o NFirst([u \in DOMAIN m \ {t} |-> m[u]], n - 1)

\* mcap.nlargest(n).index.tolist(): descending by value, the first column
\* winning among equal values (keep='first'); all of them when n > len(mcap).
RECURSIVE NLargest(_, _)
NLargest(m, n) ==
    IF n = 0 \/ DOMAIN m = {} THEN <<>>
    ELSE LET t == CHOOSE x \in DOMAIN m :
                      \A y \in DOMAIN m : m[x] > m[y] \/ (m[x] = m[y] /\ x <= y)
         IN  <<t>> \o NLargest([u \in DOMAIN m \ {t} |-> m[u]], n - 1)

RECURSIVE IntSum(_, _)
IntSum(f, S) ==
    IF S = {} THEN 0
    ELSE LET t == CHOOSE x \in S : TRUE
         IN  f[t] + IntSum(f, S \ {t})

\* mcap[top_tickers].sum()
TotalMcap(m, top) == IntSum(m, Range(top))

\* {t: mcap[t] / total_mcap for t in top_tickers}
Weights(m, top, total) ==
    [t \in Range(top) |-> RDiv(<<m[t], 1>>, <<total, 1>>)]

\* The empty dict.
NoHoldings == [t \in {} |-> NaN]

\* sum(holdings.get(t, 0) * returns_panel.loc[date, t] for t in holdings
\*     if t in returns_panel.columns and pd.notna(...)); the return panel
\* holds no NaN after fillna(0).
DailyReturn(h, rets, columns) ==
    LET terms == [t \in DOMAIN h \cap columns |-> RMul(h[t], rets[t])]
    IN  RSum(terms, DOMAIN terms)

(* -------------------------------- state -------------------------------- *)

VARIABLES
    index,                \* market_cap_panel.index, sorted
    returns_columns,      \* returns_panel.columns
    pc,                   \* "schedule", "backtest", "done" or "failed"
    rebalance_dates,      \* sorted list of dates
    year_end_dates,       \* set of dates
    i,                    \* position of the loop in index (1-based)
    mcap,                 \* the row read at the last rebalance date, NaN dropped
    top_tickers,
    total_mcap,
    holdings,             \* ticker -> weight
    daily_return,
    portfolio_value,      \* no fee
    portfolio_value_fee,  \* annual fee applied at year end
    cagr,
    cagr_fee,
    error,                \* the exception that ended the script, or "none"
    ever_enough           \* history: some rebalance date processed so far had
                          \* at least TOP_N market caps

vars == <<index, returns_columns, pc, rebalance_dates, year_end_dates, i, mcap,
          top_tickers, total_mcap, holdings, daily_return, portfolio_value,
          portfolio_value_fee, cagr, cagr_fee, error, ever_enough>>

\* for i, date in enumerate(market_cap_panel.index[1:], start=1)
date == index[i]

\* The panels are loaded: every ticker has a market cap column; the last
\* ticker has no price sheet, and so no column in the return panel.
Init ==
    /\ index \in DateIndexes
    /\ returns_columns = PricedTickers
    /\ pc = "schedule"
    /\ rebalance_dates = <<>>
    /\ year_end_dates = {}
    /\ i = 1
    /\ mcap = NoHoldings
    /\ top_tickers = <<>>
    /\ total_mcap = 0
    /\ holdings = NoHoldings
    /\ daily_return = <<0, 1>>
    /\ portfolio_value = <<>>
    /\ portfolio_value_fee = <<>>
    /\ cagr = <<>>
    /\ cagr_fee = <<>>
    /\ error = "none"
    /\ ever_enough = FALSE

(* ------------------------------- actions ------------------------------- *)

\* pd.Series(index=..., dtype=float) with .iloc[0] = INITIAL_VALUE
NewSeries(idx) == [j \in 1..Len(idx) |-> IF j = 1 THEN Val(INITIAL_VALUE) ELSE VNaN]

\* Schedule building and the set-up of the backtest.
BuildSchedule ==
    /\ pc = "schedule"
    /\ rebalance_dates' = RebalanceDates(index)
    /\ year_end_dates' = YearEndDates(index)
    /\ portfolio_value' = NewSeries(index)
    /\ portfolio_value_fee' = NewSeries(index)
    /\ holdings' = NoHoldings
    /\ pc' = "backtest"
    /\ UNCHANGED <<index, returns_columns, i, mcap, top_tickers, total_mcap,
                   daily_return, cagr, cagr_fee, error, ever_enough>>

\* Faulty variant of IsRebalanceDate: every day is a rebalance date.
IsAnyDate(d) == TRUE

\* date in rebalance_dates
IsRebalanceDate(d) == d \in Range(rebalance_dates)

\* Faulty variant of IsFeeDate: the fee is never charged.
NeverFeeDate(d) == FALSE

\* date in year_end_dates
IsFeeDate(d) == d \in year_end_dates

\* The rebalance of one iteration (the program's mcap, top_tickers,
\* total_mcap and holdings after it), for the date d and its market cap row.
Rebalance(d, row) ==
    IF ~IsRebalanceDate(d)
    THEN [mcap |-> mcap, top_tickers |-> top_tickers, total_mcap |-> total_mcap,
          holdings |-> holdings]
    ELSE LET m == Dropna(row) IN
         IF ~EnoughValid(m)
         THEN [mcap |-> m, top_tickers |-> top_tickers, total_mcap |-> total_mcap,
               holdings |-> holdings]
         ELSE LET top == NLargest(m, TOP_N)
                  total == TotalMcap(m, top)
              IN  [mcap |-> m, top_tickers |-> top, total_mcap |-> total,
                   holdings |-> Weights(m, top, total)]

\* The return compounding and the fee of one iteration, for the date d, the
\* holdings h after the rebalance and the daily return dr.
Compound(d, h, dr) ==
    LET growth == RAdd(<<1, 1>>, dr)
        v == IF DOMAIN h # {} THEN VMul(portfolio_value[i], growth) ELSE portfolio_value[i]
        vf == IF DOMAIN h # {} THEN VMul(portfolio_value_fee[i], growth)
              ELSE portfolio_value_fee[i]
    IN  /\ portfolio_value' = [portfolio_value EXCEPT ![i + 1] = v]
        /\ portfolio_value_fee' =
               [portfolio_value_fee EXCEPT ![i + 1] = IF IsFeeDate(d) THEN VFee(vf) ELSE vf]

\* One iteration of the loop, for the date index[i + 1].  It reads the market
\* cap row of the date on a rebalance date, and the returns of the date for
\* the held tickers that have a column in the return panel.
Step ==
    /\ pc = "backtest"
    /\ i < Len(index)
    /\ \E row \in (IF IsRebalanceDate(index[i + 1]) THEN Rows ELSE {[t \in Tickers |-> -1]}) :
         \E r \in {Rebalance(index[i + 1], row)} :
           \E rets \in [DOMAIN r.holdings \cap returns_columns -> Returns] :
             \E dr \in {IF DOMAIN r.holdings # {}
                        THEN DailyReturn(r.holdings, rets, returns_columns)
                        ELSE daily_return} :
               /\ i' = i + 1
               /\ mcap' = r.mcap
               /\ top_tickers' = r.top_tickers
               /\ total_mcap' = r.total_mcap
               /\ holdings' = r.holdings
               /\ daily_return' = dr
               /\ ever_enough' = (ever_enough
                                   \/ /\ index[i + 1] \in Range(rebalance_dates)
                                      /\ Cardinality({t \in Tickers : row[t] >= 0}) >= TOP_N)
               /\ Compound(index[i + 1], r.holdings, dr)
    /\ UNCHANGED <<index, returns_columns, pc, rebalance_dates, year_end_dates,
                   cagr, cagr_fee, error>>

\* len(series.pct_change().dropna()).  pct_change of a pandas that still
\* pads (fill_method='pad') fills a NaN value forward before dividing, and a
\* later pandas does not: the period j survives dropna when both values are
\* numbers (padded or not) and their quotient is one.
Observations(series, pad) ==
    Cardinality({j \in 2..Len(series) :
                    \/ pad
                    \/ ~VIsNaN(series[j]) /\ ~VIsNaN(series[j - 1])})

\* series.iloc[-1] / series.iloc[0], which is 1 + total_return
Growth(series) ==
    LET a == series[Len(series)]
        b == series[1]
    IN  IF VIsNaN(a) \/ VIsNaN(b) \/ b[1] = 0 THEN VNaN
        ELSE LET q == RDiv(<<a[1], a[2]>>, <<b[1], b[2]>>)
             IN  IF q[1] = 0 THEN <<0, 1, 0>> ELSE <<q[1], q[2], a[3] - b[3]>>

\* (1 + total_return) ** (252 / n) - 1, kept as <<1 + total_return, 252, n>>;
\* 252 / 0 raises ZeroDivisionError.
Cagr(series, n) == <<Growth(series), 252, n>>

\* The performance statistics, after the loop.
Report ==
    /\ pc = "backtest"
    /\ i = Len(index)
    /\ \E pad \in BOOLEAN :
         LET n == Observations(portfolio_value, pad)
             nf == Observations(portfolio_value_fee, pad)
         IN  /\ cagr' = IF n = 0 THEN cagr ELSE Cagr(portfolio_value, n)
             /\ cagr_fee' = IF n = 0 \/ nf = 0 THEN cagr_fee ELSE Cagr(portfolio_value_fee, nf)
             /\ error' = IF n = 0 \/ nf = 0 THEN "ZeroDivisionError" ELSE "none"
             /\ pc' = IF n = 0 \/ nf = 0 THEN "failed" ELSE "done"
    /\ UNCHANGED <<index, returns_columns, rebalance_dates, year_end_dates, i, mcap,
                   top_tickers, total_mcap, holdings, daily_return, portfolio_value,
                   portfolio_value_fee, ever_enough>>

Next == BuildSchedule \/ Step \/ Report

Spec == Init /\ [][Next]_vars

(* ------------------------------ properties ----------------------------- *)

Started == pc # "schedule"

Finished == pc \in {"done", "failed"}

RebalanceDateSet == Range(rebalance_dates)

\* The loop has processed a rebalance date as its latest date.
AtRebalanceDate == Started /\ i >= 2 /\ date \in RebalanceDateSet

\* C1: with ANNUAL_FEE > 0, at every date on or after the first fee date of
\* the index the no-fee value is greater than or equal to the with-fee
\* value, and at every date before it the two values are equal.
C1_FeeDrag ==
    Started =>
        \A j \in 1..i :
            IF \E k \in 1..j : index[k] \in year_end_dates
            THEN VGe(portfolio_value[j], portfolio_value_fee[j])
            ELSE VEq(portfolio_value[j], portfolio_value_fee[j])

\* The with-fee and the no-fee value of the latest date after its return
\* compounding and before its fee.
CompoundedFee ==
    IF DOMAIN holdings # {}
    THEN VMul(portfolio_value_fee[i - 1], RAdd(<<1, 1>>, daily_return))
    ELSE portfolio_value_fee[i - 1]

CompoundedNoFee ==
    IF DOMAIN holdings # {}
    THEN VMul(portfolio_value[i - 1], RAdd(<<1, 1>>, daily_return))
    ELSE portfolio_value[i - 1]

\* The fee dates the loop has processed up to position j.
FeesCharged(j) == Cardinality({k \in 2..j : index[k] \in year_end_dates})

\* C2 as stated: at every date of the fee date set, the first date of the
\* index included, the with-fee value is the value after that date's return
\* compounding times (1 - ANNUAL_FEE); the no-fee value is never multiplied
\* by the fee factor.
C2_FeeLaw ==
    Started =>
        /\ index[1] \in year_end_dates =>
               portfolio_value_fee[1] = VFee(Val(INITIAL_VALUE))
        /\ (i >= 2 /\ date \in year_end_dates) =>
               portfolio_value_fee[i] = VFee(CompoundedFee)
        /\ i >= 2 => portfolio_value[i] = CompoundedNoFee

\* C2 as amended: both values are INITIAL_VALUE at the first date, fee date
\* or not; at every later date the with-fee value is the value after that
\* date's return compounding, times (1 - ANNUAL_FEE) exactly when the date
\* is a fee date (NaN where the compounded value is NaN), so that a value
\* has been charged once for each fee date after the first date of the
\* index; the no-fee value is never multiplied by the fee factor.
C2_FeeLawAfterFirst ==
    Started =>
        /\ portfolio_value[1] = Val(INITIAL_VALUE)
        /\ portfolio_value_fee[1] = Val(INITIAL_VALUE)
        /\ i >= 2 =>
               /\ portfolio_value[i] = CompoundedNoFee
               /\ portfolio_value_fee[i] =
                      IF date \in year_end_dates
                      THEN <<CompoundedFee[1], CompoundedFee[2],
                             IF VIsNaN(CompoundedFee) THEN 0 ELSE CompoundedFee[3] + 1>>
                      ELSE CompoundedFee
        /\ \A j \in 1..i :
               /\ portfolio_value[j][3] = 0
               /\ ~VIsNaN(portfolio_value_fee[j]) =>
                      portfolio_value_fee[j][3] = FeesCharged(j)

\* The first date of the index is a fee date, and the loop has charged the
\* fee of a later fee date on a portfolio that holds securities.
C2_ChargedAfterFirstFeeDate ==
    /\ Started
    /\ index[1] \in year_end_dates
    /\ i >= 2
    /\ date \in year_end_dates
    /\ DOMAIN holdings # {}
    /\ ~VIsNaN(portfolio_value_fee[i])

\* C3: a loop step for a rebalance date with fewer than TOP_N non-missing
\* market caps leaves the holdings as they were, empty or assigned.
C3_SkipKeepsHoldings ==
    [][(/\ pc = "backtest"
        /\ i' = i + 1
        /\ index[i'] \in RebalanceDateSet
        /\ Cardinality(DOMAIN mcap') < TOP_N) => holdings' = holdings]_vars

\* A rebalance was skipped while securities were held.
C3_SkippedWhileHolding ==
    /\ AtRebalanceDate
    /\ Cardinality(DOMAIN mcap) < TOP_N
    /\ DOMAIN holdings # {}
    /\ \A t \in DOMAIN holdings : ~IsNaN(holdings[t])

\* C4: after a rebalance with at least TOP_N non-missing market caps, every
\* weight is the security's market cap over the sum of the selected market
\* caps, lies in (0, 1], and the weights sum to 1.
C4_Weights ==
    (AtRebalanceDate /\ Cardinality(DOMAIN mcap) >= TOP_N) =>
        LET total == IntSum(mcap, DOMAIN holdings)
        IN  /\ \A t \in DOMAIN holdings :
                  /\ ~IsNaN(holdings[t])
                  /\ holdings[t][1] * total = mcap[t] * holdings[t][2]
                  /\ 0 < holdings[t][1]
                  /\ holdings[t][1] <= holdings[t][2]
            /\ RSum(holdings, DOMAIN holdings) = <<1, 1>>

\* C5: with INITIAL_VALUE > 0, ANNUAL_FEE in [0, 1) and every daily return
\* above -100%, both values are strictly positive at every date.
C5_Positive ==
    Started =>
        \A j \in 1..i :
            VPositive(portfolio_value[j]) /\ VPositive(portfolio_value_fee[j])

\* C6: for a date index of a single date the CAGR is reported as undefined:
\* the script neither raises nor produces a number.
C6_CagrUndefined ==
    (Finished /\ Len(index) = 1) =>
        /\ error = "none"
        /\ cagr # <<>> /\ VIsNaN(cagr[1])
        /\ cagr_fee # <<>> /\ VIsNaN(cagr_fee[1])

\* C7 as stated: when every rebalance date has fewer than TOP_N non-missing
\* market caps, the holdings stay empty and both values equal INITIAL_VALUE
\* at every date.
C7_FlatAtInitial ==
    (Finished /\ ~ever_enough) =>
        /\ DOMAIN holdings = {}
        /\ \A j \in 1..Len(index) :
               /\ VEq(portfolio_value[j], Val(INITIAL_VALUE))
               /\ VEq(portfolio_value_fee[j], Val(INITIAL_VALUE))

\* C7 as amended: when every rebalance date so far has fewer than TOP_N
\* non-missing market caps, the holdings are empty, the no-fee value equals
\* INITIAL_VALUE at every date and the with-fee value equals INITIAL_VALUE
\* times (1 - ANNUAL_FEE) to the number of fee dates the loop has processed
\* up to that date.
C7_FlatUpToFees ==
    (Started /\ ~ever_enough) =>
        /\ DOMAIN holdings = {}
        /\ \A j \in 1..i :
               /\ portfolio_value[j] = Val(INITIAL_VALUE)
               /\ portfolio_value_fee[j] = <<INITIAL_VALUE, 1, FeesCharged(j)>>

\* A finished run that never had TOP_N market caps on a rebalance date and
\* was charged a fee.
C7_NeverHeldAndCharged ==
    /\ Finished
    /\ ~ever_enough
    /\ Cardinality(DOMAIN mcap) < TOP_N
    /\ FeesCharged(i) >= 1

\* The days of the index in the calendar quarter, and in the year, of d.
SameQuarter(d) ==
    {e \in Range(index) : YearOf(e) = YearOf(d) /\ QuarterOf(e) = QuarterOf(d)}

SameYear(d) == {e \in Range(index) : YearOf(e) = YearOf(d)}

\* C8: the rebalance dates are days of the index, exactly one for each
\* calendar quarter with a day in the index, the latest day of the quarter;
\* the fee dates likewise, one for each calendar year, its latest day.
C8_Schedule ==
    Started =>
        /\ RebalanceDateSet \subseteq Range(index)
        /\ Len(rebalance_dates) = Cardinality(RebalanceDateSet)
        /\ \A d \in Range(index) :
               /\ Cardinality(RebalanceDateSet \cap SameQuarter(d)) = 1
               /\ \E r \in RebalanceDateSet \cap SameQuarter(d) : r >= d
        /\ year_end_dates \subseteq Range(index)
        /\ \A d \in Range(index) :
               /\ Cardinality(year_end_dates \cap SameYear(d)) = 1
               /\ \E y \in year_end_dates \cap SameYear(d) : y >= d

\* A schedule over two years, with a quarter of more than one day.
C8_TwoYearsBuilt ==
    /\ Started
    /\ Cardinality(year_end_dates) = 2
    /\ Cardinality(RebalanceDateSet) >= 2
    /\ Len(index) > Cardinality(RebalanceDateSet)

\* C9: after a rebalance with at least TOP_N non-missing market caps, the
\* holdings are exactly TOP_N securities, each with a market cap on that
\* date, and no security left out has a larger market cap than one held.
C9_TopN ==
    (AtRebalanceDate /\ Cardinality(DOMAIN mcap) >= TOP_N) =>
        /\ DOMAIN holdings \subseteq DOMAIN mcap
        /\ Cardinality(DOMAIN holdings) = TOP_N
        /\ \A t \in DOMAIN holdings :
               \A u \in DOMAIN mcap \ DOMAIN holdings : mcap[t] >= mcap[u]

\* A rebalance that left out a security with a smaller market cap, in an
\* earlier column than one it selected.
C9_SmallerLeftOut ==
    /\ AtRebalanceDate
    /\ Cardinality(DOMAIN mcap) > TOP_N
    /\ \E t \in DOMAIN holdings :
           \E u \in DOMAIN mcap \ DOMAIN holdings : mcap[u] < mcap[t] /\ u < t

\* C10: a loop step for a date that is no rebalance date leaves the
\* holdings as they were, and holdings only ever change in a loop step for
\* a rebalance date, to the whole newly computed mapping.
C10_HoldingsFrame ==
    [][/\ (i' = i + 1 /\ index[i'] \notin RebalanceDateSet) => holdings' = holdings
       /\ holdings' # holdings =>
              /\ pc = "backtest"
              /\ i' = i + 1
              /\ index[i'] \in RebalanceDateSet
              /\ holdings' = [t \in Range(top_tickers') |->
                                 RDiv(<<mcap'[t], 1>>, <<total_mcap', 1>>)]]_vars

\* A day that is no rebalance date went by while securities were held.
C10_HeldOverPlainDay ==
    /\ Started
    /\ i >= 2
    /\ date \notin RebalanceDateSet
    /\ DOMAIN holdings # {}
    /\ \A t \in DOMAIN holdings : ~IsNaN(holdings[t])

============================================================================
